---- MODULE Spec2Model ----
(***************************************************************************)
(* Model of the uber (PBR) rendering style of vr-intro:                    *)
(* src/src/draw/uber.rs (UberInputs, UberStyle, Painter::clear_env) and    *)
(* the TransformBlock of src/src/lib.rs.                                   *)
(*                                                                         *)
(* f32 values are written as decimal strings ("1.0", "2.2"); matrices,     *)
(* rotations and rectangles are named values.  The command stream of the   *)
(* gfx Encoder is the sequence cmds; transform_block and params_block hold *)
(* the content the recorded buffer writes leave in the two GPU buffers.    *)
(***************************************************************************)
EXTENDS Integers, Sequences, FiniteSets, TLC

VARIABLES
    status,           \* "uninit" | "ready" | "failed" | "panicked"
    background,       \* UberInputs.background.mesh : the sky cube [verts, inds]
    transform,        \* UberInputs.transform : Option<TransformBlock>
    env,              \* UberInputs.env : UberEnv
    exposure,         \* UberInputs.exposure
    gamma,            \* UberInputs.gamma
    params_update,    \* UberInputs.params_update
    transform_block,  \* content of the Transform GPU buffer
    params_block,     \* content of the Params GPU buffer
    cmds,             \* commands recorded in the Encoder, in order
    result,           \* what the last operation returned
    trace             \* history: the calls made so far, in order: [op, arg, at],
                      \* at = length of the command stream when the call was made

vars == <<status, background, transform, env, exposure, gamma, params_update,
          transform_block, params_block, cmds, result, trace>>

(* ---------------------------- bounds ----------------------------------- *)

\* Number of calls a run makes, UberStyle::init included.
MaxOps == 5

\* The call `name(arg)` is made: one more entry of the history.
Call(name, arg) ==
    /\ Len(trace) < MaxOps
    /\ trace' = Append(trace, [op |-> name, arg |-> arg, at |-> Len(cmds)])

(* ---------------------------- values ----------------------------------- *)

\* Option<T>
None == <<>>
Some(x) == <<x>>

\* Content of a constant buffer no command has written yet.
Unwritten == [unwritten |-> TRUE]

\* Rotation3::rotation_between(-z, -y): the default sun orientation.
RotDown == "rot(-z -> -y)"

\* Rotation3::to_homogeneous().downgrade(): the 4x4 array of a rotation.
ToHomogeneous(r) == <<"mat4", r>>

\* Matrix4::identity().downgrade()
Identity == "identity"

\* Point3::to_homogeneous().downgrade(): [x, y, z, 1].
PointToHomogeneous(p) == p \o <<"1.0">>

\* The Environment UberStyle::init builds.
DefaultEnv ==
    [ irradiance      |-> "sky_blue",
      radiance        |-> "sky_blue",
      sun_included    |-> FALSE,
      sun_color       |-> <<"1.0", "1.0", "1.0", "2.0">>,
      sun_rotation    |-> RotDown,
      radiance_levels |-> 1 ]

\* A second Environment a caller may install with set_env.
OtherEnv ==
    [ irradiance      |-> "irr_map",
      radiance        |-> "rad_map",
      sun_included    |-> TRUE,
      sun_color       |-> <<"0.5", "0.5", "0.5", "1.0">>,
      sun_rotation    |-> "rot(other)",
      radiance_levels |-> 6 ]

Envs == {DefaultEnv, OtherEnv}

\* Values a caller passes to set_exposure and set_gamma.
Exposures == {"1.0", "0.5"}
Gammas == {"2.2", "1.0"}

\* TransformBlocks a caller passes to transform().
MkTransform(m) ==
    [ model |-> m, view |-> "view_fg", proj |-> "proj_fg",
      eye |-> <<"0.0", "0.0", "0.0", "1.0">>, clip_offset |-> "0.0" ]

Transforms == {MkTransform("model_1"), MkTransform("model_2")}

\* Eye descriptors of DrawParams (left, right).
EyeA ==
    [ eye |-> <<"-0.03", "0.0", "0.0">>, view |-> "view_a", proj |-> "proj_a",
      clip_offset |-> "-0.5", clip |-> "rect_a" ]

EyeB ==
    [ eye |-> <<"0.03", "0.0", "0.0">>, view |-> "view_b", proj |-> "proj_b",
      clip_offset |-> "0.5", clip |-> "rect_b" ]

Ctxs == { [left |-> EyeA, right |-> EyeB], [left |-> EyeB, right |-> EyeA] }

\* Scissor rectangles a caller passes to draw_raw.
Scissors == {"rect_fg"}

(* ---------------------------- commands --------------------------------- *)

\* Encoder::update_constant_buffer(buf, data)
Update(buf, data) == [kind |-> "update", buf |-> buf, data |-> data]

\* Encoder::draw(slice, pso, data): pso, scissor, and the buffer contents
\* the draw reads, as left by the commands recorded before it.
Draw(pso, scissor, tb, pb) ==
    [kind |-> "draw", pso |-> pso, scissor |-> scissor, transform |-> tb, params |-> pb]

IsUpdate(c, buf) == c.kind = "update" /\ c.buf = buf
IsDraw(c) == c.kind = "draw"


\* The content a buffer holds after the commands cs, given it held old before.
RECURSIVE BufferAfter(_, _, _)
BufferAfter(old, cs, buf) ==
    IF cs = <<>> THEN old
    ELSE LET c == cs[Len(cs)]
         IN IF IsUpdate(c, buf) THEN c.data
            ELSE BufferAfter(old, SubSeq(cs, 1, Len(cs) - 1), buf)

(* ---------------------------- construction ----------------------------- *)

\* The fallible steps of UberStyle::init, in the order the code runs them.
InitSteps ==
    << "shadow_create_texture", "shadow_view_shader_resource",
       "shadow_view_depth_stencil", "bg_shader", "shader", "bg_pso",
       "integrated_brdf", "radiance_texture", "irradiance_texture" >>

\* Steps whose failure is unwrapped (shadow_texture), against those
\* propagated with `?`.
UnwrappedSteps ==
    { "shadow_create_texture", "shadow_view_shader_resource",
      "shadow_view_depth_stencil" }

StepSet == { InitSteps[i] : i \in 1..Len(InitSteps) }

\* How init ends when step `fail` fails ("none": every step succeeds).
InitOutcome(fail) ==
    IF fail = "none" THEN "ready"
    ELSE IF fail \in UnwrappedSteps THEN "panicked"
    ELSE "failed"

\* bg_verts: the corners of the sky cube.
BgVerts ==
    << << -10, -10,  10 >>,
       << -10,  10,  10 >>,
       << -10, -10, -10 >>,
       << -10,  10, -10 >>,
       <<  10, -10,  10 >>,
       <<  10,  10,  10 >>,
       <<  10, -10, -10 >>,
       <<  10,  10, -10 >> >>

\* The one-based corner numbers bg_inds is written with.
BgCorners ==
    << 1, 3, 2,
       3, 7, 4,
       7, 5, 8,
       5, 1, 6,
       3, 1, 7,
       8, 6, 4,
       3, 4, 2,
       7, 8, 4,
       5, 6, 8,
       1, 2, 6,
       1, 5, 7,
       6, 2, 4 >>

\* Faulty variant of BgInds: the first triangle is wound the other way.
BgIndsFirstFlipped ==
    [ i \in 1..Len(BgCorners) |->
        (IF i = 2 THEN BgCorners[3] ELSE IF i = 3 THEN BgCorners[2] ELSE BgCorners[i]) - 1 ]

\* bg_inds: each entry is written n-1 in the code.
BgInds == [ i \in 1..Len(BgCorners) |-> BgCorners[i] - 1 ]

InitInputsClean ==
    [ transform     |-> None,
      params_update |-> FALSE,
      gamma         |-> "2.2",
      exposure      |-> "1.0",
      env           |-> DefaultEnv,
      background    |-> [verts |-> BgVerts, inds |-> BgInds] ]

\* The UberInputs value init returns on success.
InitInputs ==
    [ transform     |-> None,
      params_update |-> TRUE,
      gamma         |-> "2.2",
      exposure      |-> "1.0",
      env           |-> DefaultEnv,
      background    |-> [verts |-> BgVerts, inds |-> BgInds] ]

init(fail) ==
    /\ status = "uninit"
    /\ Call("init", fail)
    /\ status' = InitOutcome(fail)
    /\ IF InitOutcome(fail) = "ready"
         THEN /\ transform' = InitInputs.transform
              /\ params_update' = InitInputs.params_update
              /\ gamma' = InitInputs.gamma
              /\ exposure' = InitInputs.exposure
              /\ env' = InitInputs.env
              /\ background' = InitInputs.background
              /\ result' = "Ok"
         ELSE /\ UNCHANGED <<transform, params_update, gamma, exposure, env,
                              background>>
              /\ result' = IF InitOutcome(fail) = "failed" THEN "Err" ELSE "panic"
    /\ UNCHANGED <<transform_block, params_block, cmds>>

(* ---------------------------- UberInputs ------------------------------- *)

set_env(e) ==
    /\ status = "ready"
    /\ Call("set_env", e)
    /\ env' = e
    /\ params_update' = TRUE
    /\ result' = "unit"
    /\ UNCHANGED <<status, background, transform, exposure, gamma, transform_block,
                   params_block, cmds>>

\* Faulty variant of MutEnvFlag: the flag is written false.
MutEnvFlagCleared(dirty) == FALSE

\* The flag mut_env leaves: set before the handle is returned.
MutEnvFlag(dirty) == TRUE

\* What a caller may do with the &mut UberEnv that mut_env returns:
\* nothing ("keep"), or write sun_included.
Writes == {"keep", "sun_on", "sun_off"}

HandleWrite(e, w) ==
    IF w = "keep" THEN e ELSE [e EXCEPT !.sun_included = (w = "sun_on")]

mut_env(w) ==
    /\ status = "ready"
    /\ Call("mut_env", w)
    /\ params_update' = MutEnvFlag(params_update)
    /\ env' = HandleWrite(env, w)
    /\ result' = "handle"
    /\ UNCHANGED <<status, background, transform, exposure, gamma, transform_block,
                   params_block, cmds>>

set_exposure(x) ==
    /\ status = "ready"
    /\ Call("set_exposure", x)
    /\ exposure' = x
    /\ params_update' = TRUE
    /\ result' = "unit"
    /\ UNCHANGED <<status, background, transform, env, gamma, transform_block,
                   params_block, cmds>>

set_gamma(g) ==
    /\ status = "ready"
    /\ Call("set_gamma", g)
    /\ gamma' = g
    /\ params_update' = TRUE
    /\ result' = "unit"
    /\ UNCHANGED <<status, background, transform, env, exposure, transform_block,
                   params_block, cmds>>

\* Faulty variant of SetTransform: a pending value is not replaced.
SetTransformKeepFirst(old, block) == IF old = None THEN Some(block) ELSE old

\* StyleInputs::transform: the pending value after the call.
SetTransform(old, block) == Some(block)

\* Faulty variant of set_transform: the block is also written to the
\* Transform buffer at once.
set_transform_eager(block) ==
    /\ status = "ready"
    /\ Call("transform", block)
    /\ transform' = SetTransform(transform, block)
    /\ cmds' = Append(cmds, Update("transform_block", block))
    /\ transform_block' = block
    /\ result' = "unit"
    /\ UNCHANGED <<status, background, env, exposure, gamma, params_update,
                   params_block>>

set_transform(block) ==
    /\ status = "ready"
    /\ Call("transform", block)
    /\ transform' = SetTransform(transform, block)
    /\ result' = "unit"
    /\ UNCHANGED <<status, background, env, exposure, gamma, params_update, transform_block,
                   params_block, cmds>>

(* ---------------------------- UberStyle::draw_raw ---------------------- *)

\* Faulty variant of DrawRawParams: exposure and gamma are exchanged.
DrawRawParamsSwapped(e, x, g) ==
    [ sun_matrix      |-> ToHomogeneous(e.sun_rotation),
      sun_color       |-> e.sun_color,
      sun_in_env      |-> IF e.sun_included THEN "1.0" ELSE "0.0",
      exposure        |-> g,
      gamma           |-> x,
      radiance_levels |-> e.radiance_levels ]

\* The ParamsBlock draw_raw derives from the Environment, exposure and gamma.
DrawRawParams(e, x, g) ==
    [ sun_matrix      |-> ToHomogeneous(e.sun_rotation),
      sun_color       |-> e.sun_color,
      sun_in_env      |-> IF e.sun_included THEN "1.0" ELSE "0.0",
      exposure        |-> x,
      gamma           |-> g,
      radiance_levels |-> e.radiance_levels ]

\* Faulty variant of TakeTransform: the value is read without being taken.
TakeTransformKept(t) == t

\* inputs.transform.take(): what is left in inputs.transform.
TakeTransform(t) == None

\* inputs.params_update when draw_raw returns: the function never assigns it.
DrawRawFlag(dirty) == dirty

\* Faulty variant of DrawRawCmds: Params are flushed before the Transform.
DrawRawCmdsParamsFirst(t, dirty, e, x, g, scissor, tb, pb) ==
    LET flushT == IF t # None
                    THEN << Update("transform_block", t[1]) >>
                    ELSE << >>
        flushP == IF dirty
                    THEN << Update("params_block", [ sun_matrix |-> ToHomogeneous(e.sun_rotation),
                              sun_color |-> e.sun_color,
                              sun_in_env |-> IF e.sun_included THEN "1.0" ELSE "0.0",
                              exposure |-> x, gamma |-> g,
                              radiance_levels |-> e.radiance_levels ]) >>
                    ELSE << >>
        w == flushP \o flushT
    IN  w \o << Draw("pl", scissor,
                     BufferAfter(tb, w, "transform_block"),
                     BufferAfter(pb, w, "params_block")) >>

\* Faulty variant of DrawRawCmds: the Transform buffer is rewritten with its
\* own content when no Transform is pending.
DrawRawCmdsAlwaysWritesTransform(t, dirty, e, x, g, scissor, tb, pb) ==
    LET flushT == << Update("transform_block", IF t # None THEN t[1] ELSE tb) >>
        flushP == IF dirty
                    THEN << Update("params_block", [ sun_matrix |-> ToHomogeneous(e.sun_rotation),
                              sun_color |-> e.sun_color,
                              sun_in_env |-> IF e.sun_included THEN "1.0" ELSE "0.0",
                              exposure |-> x, gamma |-> g,
                              radiance_levels |-> e.radiance_levels ]) >>
                    ELSE << >>
        w == flushT \o flushP
    IN  w \o << Draw("pl", scissor,
                     BufferAfter(tb, w, "transform_block"),
                     BufferAfter(pb, w, "params_block")) >>

\* The commands one draw_raw call records: t is the pending Transform on
\* entry, dirty the flag, tb and pb the buffer contents before the call.
DrawRawCmds(t, dirty, e, x, g, scissor, tb, pb) ==
    LET flushT == IF t # None
                    THEN << Update("transform_block", t[1]) >>
                    ELSE << >>
        flushP == IF dirty
                    THEN << Update("params_block", DrawRawParams(e, x, g)) >>
                    ELSE << >>
        w == flushT \o flushP
    IN  w \o << Draw("pl", scissor,
                     BufferAfter(tb, w, "transform_block"),
                     BufferAfter(pb, w, "params_block")) >>

draw_raw(scissor) ==
    /\ status = "ready"
    /\ Call("draw_raw", scissor)
    /\ LET new == DrawRawCmds(transform, params_update, env, exposure, gamma,
                              scissor, transform_block, params_block)
       IN /\ cmds' = cmds \o new
          /\ transform_block' = BufferAfter(transform_block, new, "transform_block")
          /\ params_block' = BufferAfter(params_block, new, "params_block")
    /\ transform' = TakeTransform(transform)
    /\ params_update' = DrawRawFlag(params_update)
    /\ result' = "Ok"
    /\ UNCHANGED <<status, background, env, exposure, gamma>>

(* ---------------------------- Painter::clear_env ----------------------- *)

\* Faulty variant of ClearEnvParams: sun_in_env is always 0.0.
ClearEnvParamsNoSun(e, x, g) ==
    [ sun_matrix      |-> ToHomogeneous(e.sun_rotation),
      sun_color       |-> e.sun_color,
      sun_in_env      |-> "0.0",
      exposure        |-> x,
      gamma           |-> g,
      radiance_levels |-> e.radiance_levels ]

\* The ParamsBlock clear_env derives.
ClearEnvParams(e, x, g) ==
    [ sun_matrix      |-> ToHomogeneous(e.sun_rotation),
      sun_color       |-> e.sun_color,
      sun_in_env      |-> IF e.sun_included THEN "1.0" ELSE "0.0",
      exposure        |-> x,
      gamma           |-> g,
      radiance_levels |-> e.radiance_levels ]

\* Faulty variant of EyeTransform: the view matrix is bound as projection.
EyeTransformViewAsProj(eye) ==
    [ eye         |-> PointToHomogeneous(eye.eye),
      model       |-> Identity,
      view        |-> eye.view,
      proj        |-> eye.view,
      clip_offset |-> eye.clip_offset ]

\* The TransformBlock clear_env builds for one eye.
EyeTransform(eye) ==
    [ eye         |-> PointToHomogeneous(eye.eye),
      model       |-> Identity,
      view        |-> eye.view,
      proj        |-> eye.proj,
      clip_offset |-> eye.clip_offset ]

\* The two commands of one iteration of clear_env's loop.
EyeCmds(eye, pb) ==
    << Update("transform_block", EyeTransform(eye)),
       Draw("bg", eye.clip, EyeTransform(eye), pb) >>

\* Faulty variant of ClearEnvCmds: the right eye is drawn first.
ClearEnvCmdsRightFirst(e, x, g, ctx) ==
    LET p == ClearEnvParams(e, x, g)
    IN  << Update("params_block", p) >>
          \o EyeCmds(ctx.right, p) \o EyeCmds(ctx.left, p)

\* The commands one clear_env call records.
ClearEnvCmds(e, x, g, ctx) ==
    LET p == ClearEnvParams(e, x, g)
    IN  << Update("params_block", p) >>
          \o EyeCmds(ctx.left, p) \o EyeCmds(ctx.right, p)

\* Faulty variant of clear_env: the pending Transform is taken.
clear_env_taking(ctx) ==
    /\ status = "ready"
    /\ Call("clear_env", ctx)
    /\ LET new == ClearEnvCmds(env, exposure, gamma, ctx)
       IN /\ cmds' = cmds \o new
          /\ transform_block' = BufferAfter(transform_block, new, "transform_block")
          /\ params_block' = BufferAfter(params_block, new, "params_block")
    /\ transform' = None
    /\ result' = "unit"
    /\ UNCHANGED <<status, background, env, exposure, gamma, params_update>>

clear_env(ctx) ==
    /\ status = "ready"
    /\ Call("clear_env", ctx)
    /\ LET new == ClearEnvCmds(env, exposure, gamma, ctx)
       IN /\ cmds' = cmds \o new
          /\ transform_block' = BufferAfter(transform_block, new, "transform_block")
          /\ params_block' = BufferAfter(params_block, new, "params_block")
    /\ result' = "unit"
    /\ UNCHANGED <<status, background, transform, env, exposure, gamma, params_update>>

(* ---------------------------- specification ---------------------------- *)

Init ==
    /\ status = "uninit"
    /\ background = [verts |-> << >>, inds |-> << >>]
    /\ transform = None
    /\ env = [unbuilt |-> TRUE]
    /\ exposure = "none"
    /\ gamma = "none"
    /\ params_update = FALSE
    /\ transform_block = Unwritten
    /\ params_block = Unwritten
    /\ cmds = << >>
    /\ result = "none"
    /\ trace = << >>

Next ==
    \/ \E fail \in StepSet \cup {"none"} : init(fail)
    \/ \E e \in Envs : set_env(e)
    \/ \E w \in Writes : mut_env(w)
    \/ \E x \in Exposures : set_exposure(x)
    \/ \E g \in Gammas : set_gamma(g)
    \/ \E b \in Transforms : set_transform(b)
    \/ \E s \in Scissors : draw_raw(s)
    \/ \E c \in Ctxs : clear_env(c)

Spec == Init /\ [][Next]_vars

\* The commands the last step appended to the stream.
Appended == SubSeq(cmds', Len(cmds) + 1, Len(cmds'))

(* ---------------------------- history ---------------------------------- *)

MutatorOps == {"set_env", "mut_env", "set_exposure", "set_gamma"}

\* This step is a call of `name`.
Did(name) ==
    /\ Len(trace') = Len(trace) + 1
    /\ trace'[Len(trace')].op = name

\* The argument of the call this step makes.
Arg == trace'[Len(trace')].arg

ParamsWrites(cs) == SelectSeq(cs, LAMBDA c : IsUpdate(c, "params_block"))
TransformWrites(cs) == SelectSeq(cs, LAMBDA c : IsUpdate(c, "transform_block"))
Draws(cs) == SelectSeq(cs, IsDraw)

\* Index in the history h of the last call of draw_raw, 0 if there is none.
LastDrawRaw(h) ==
    LET S == { i \in 1..Len(h) : h[i].op = "draw_raw" }
    IN  IF S = {} THEN 0 ELSE CHOOSE i \in S : \A j \in S : j <= i

\* A mutator was called after the last draw_raw of h (or after construction).
MutatedSince(h) ==
    \E i \in (LastDrawRaw(h) + 1)..Len(h) : h[i].op \in MutatorOps

\* The calls of transform() made after the last draw_raw of h, in order.
PendingSets(h) ==
    SelectSeq(SubSeq(h, LastDrawRaw(h) + 1, Len(h)), LAMBDA c : c.op = "transform")

\* The ParamsBlock the specification derives from Environment, exposure, gamma.
Derived(e, x, g) ==
    [ sun_matrix      |-> ToHomogeneous(e.sun_rotation),
      sun_color       |-> e.sun_color,
      sun_in_env      |-> IF e.sun_included THEN "1.0" ELSE "0.0",
      exposure        |-> x,
      gamma           |-> g,
      radiance_levels |-> e.radiance_levels ]

(* ---------------------------- claims ----------------------------------- *)

\* C1: after a set_env / mut_env / set_exposure / set_gamma the next draw_raw
\* records exactly one write of the Params buffer, and a draw_raw with no
\* such call since the previous draw_raw records no write of the Params buffer.
C1_ParamsFlushedOncePerMutation ==
    [][ Did("draw_raw") =>
          /\ MutatedSince(trace) => Len(ParamsWrites(Appended)) = 1
          /\ (LastDrawRaw(trace) > 0 /\ ~MutatedSince(trace))
                => Len(ParamsWrites(Appended)) = 0 ]_vars

\* C2: when draw_raw has written the Params buffer, params_update is false on
\* return, and it stays false until the next mutator call.
C2_FlushClearsDirtyFlag ==
    [][ /\ (Did("draw_raw") /\ Len(ParamsWrites(Appended)) > 0)
             => params_update' = FALSE
        /\ (status = "ready" /\ ~params_update /\ ~(\E m \in MutatorOps : Did(m)))
             => ~params_update' ]_vars

\* C3: transform(t1) then transform(t2) with no draw_raw in between leaves
\* exactly t2 pending; the next draw_raw records exactly one Transform buffer
\* write, of t2, and t1 is not written to the Transform buffer.
C3_SecondTransformWins ==
    [][ /\ LET p == PendingSets(trace')
           IN  Len(p) >= 1 => transform' = Some(p[Len(p)].arg)
        /\ LET p == PendingSets(trace)
           IN  (Did("draw_raw") /\ Len(p) >= 2) =>
                 LET t2 == p[Len(p)].arg
                     since == SubSeq(cmds', p[1].at + 1, Len(cmds'))
                 IN  /\ TransformWrites(Appended) = << Update("transform_block", t2) >>
                     /\ \A k \in 1..(Len(p) - 1) :
                          p[k].arg # t2 =>
                            \A i \in 1..Len(since) :
                               ~(IsUpdate(since[i], "transform_block")
                                   /\ since[i].data = p[k].arg) ]_vars

\* C3 witness: transform(model_1), transform(model_2), draw_raw were called
\* and the draw wrote model_2.
C3_Witness ==
    /\ Len(trace) >= 4
    /\ LET n == Len(trace)
       IN  /\ trace[n].op = "draw_raw"
           /\ trace[n - 1].op = "transform"
           /\ trace[n - 1].arg = MkTransform("model_2")
           /\ trace[n - 2].op = "transform"
           /\ trace[n - 2].arg = MkTransform("model_1")
           /\ transform_block = MkTransform("model_2")

\* C4: every clear_env call appends exactly two draw commands, the left
\* eye's before the right eye's, whatever the flag and the pending Transform.
C4_TwoDrawsLeftThenRight ==
    [][ Did("clear_env") =>
          LET d == Draws(Appended)
          IN  /\ Len(d) = 2
              /\ d[1].pso = "bg" /\ d[1].scissor = Arg.left.clip
              /\ d[2].pso = "bg" /\ d[2].scissor = Arg.right.clip ]_vars

\* C4 witness: clear_env was called while a Transform was pending.
C4_Witness ==
    /\ Len(trace) >= 1
    /\ trace[Len(trace)].op = "clear_env"
    /\ transform # None
    /\ Len(Draws(cmds)) = 2

\* C5: every clear_env call records exactly one Params buffer write, before
\* both of its draws, derived from the Environment, exposure and gamma
\* current at the call; sun_in_env is 1.0 iff sun_included is true.
C5_ClearEnvAlwaysFlushesParams ==
    [][ Did("clear_env") =>
          /\ Len(Appended) >= 1
          /\ ParamsWrites(Appended) = << Appended[1] >>
          /\ ~IsDraw(Appended[1])
          /\ Appended[1].data = Derived(env, exposure, gamma)
          /\ Appended[1].data.sun_in_env =
                (IF env.sun_included THEN "1.0" ELSE "0.0") ]_vars

\* C5 witness: sun_included set to true, clear_env, set back to false,
\* clear_env: the two recorded Params have sun_in_env 1.0 and then 0.0.
C5_Witness ==
    /\ Len(trace) = 5
    /\ trace[2].op = "mut_env" /\ trace[2].arg = "sun_on"
    /\ trace[3].op = "clear_env"
    /\ trace[4].op = "mut_env" /\ trace[4].arg = "sun_off"
    /\ trace[5].op = "clear_env"
    /\ cmds[1].data.sun_in_env = "1.0"
    /\ cmds[6].data.sun_in_env = "0.0"

\* C6: within one draw_raw the commands are recorded in the order Transform
\* buffer write (only if a Transform is pending), Params buffer write (only
\* if params_update is set), draw command; nothing follows the draw.
C6_FlushOrder ==
    [][ Did("draw_raw") =>
          LET a == Appended
              nT == IF transform # None THEN 1 ELSE 0
              nP == IF params_update THEN 1 ELSE 0
          IN  /\ Len(a) = nT + nP + 1
              /\ nT = 1 => IsUpdate(a[1], "transform_block")
              /\ nP = 1 => IsUpdate(a[nT + 1], "params_block")
              /\ IsDraw(a[Len(a)])
              /\ \A i \in 1..(Len(a) - 1) : ~IsDraw(a[i]) ]_vars

\* C6 witness: a draw_raw recorded a Transform write, a Params write and
\* the draw, in this order.
C6_Witness ==
    /\ Len(trace) >= 1
    /\ trace[Len(trace)].op = "draw_raw"
    /\ Len(cmds) >= 3
    /\ trace[Len(trace)].at = Len(cmds) - 3
    /\ IsUpdate(cmds[Len(cmds) - 2], "transform_block")
    /\ IsUpdate(cmds[Len(cmds) - 1], "params_block")
    /\ IsDraw(cmds[Len(cmds)])

\* C7: draw_raw consumes the pending Transform: a pending t is the one value
\* written to the Transform buffer, with none pending nothing is written to
\* it, and in both cases none is pending on return.
C7_DrawConsumesTransform ==
    [][ Did("draw_raw") =>
          /\ transform' = None
          /\ transform # None =>
               TransformWrites(Appended) = << Update("transform_block", transform[1]) >>
          /\ transform = None => TransformWrites(Appended) = << >> ]_vars

\* C7 witness: a draw_raw that found a Transform pending has returned, and
\* a later draw_raw found none.
C7_Witness ==
    /\ Len(trace) = 4
    /\ trace[2].op = "transform"
    /\ trace[3].op = "draw_raw"
    /\ trace[4].op = "draw_raw"
    /\ transform = None
    /\ Len(TransformWrites(cmds)) = 1

\* C8: set_env, mut_env, set_exposure and set_gamma each leave params_update
\* true, mut_env also when nothing is written through the handle.
C8_MutatorsMarkDirty ==
    [][ (\E m \in MutatorOps : Did(m)) => params_update' = TRUE ]_vars

\* C8 witness: mut_env was called, the caller wrote nothing through the
\* handle, and the flag is set.
C8_Witness ==
    /\ Len(trace) >= 1
    /\ trace[Len(trace)].op = "mut_env"
    /\ trace[Len(trace)].arg = "keep"
    /\ params_update

\* C9: a successful init returns params_update true, no pending Transform,
\* exposure 1.0, gamma 2.2, sun excluded, sun color [1,1,1,2], radiance
\* level count 1; the first draw_raw after it, with no mutator call before,
\* writes the Params derived from these values.
C9_DefaultsAfterInit ==
    [][ /\ (Did("init") /\ status' = "ready") =>
              /\ params_update' = TRUE
              /\ transform' = None
              /\ exposure' = "1.0"
              /\ gamma' = "2.2"
              /\ env'.sun_included = FALSE
              /\ env'.sun_color = <<"1.0", "1.0", "1.0", "2.0">>
              /\ env'.radiance_levels = 1
        /\ (Did("draw_raw") /\ LastDrawRaw(trace) = 0 /\ ~MutatedSince(trace)) =>
              ParamsWrites(Appended) =
                << Update("params_block",
                     [ sun_matrix      |-> ToHomogeneous(RotDown),
                       sun_color       |-> <<"1.0", "1.0", "1.0", "2.0">>,
                       sun_in_env      |-> "0.0",
                       exposure        |-> "1.0",
                       gamma           |-> "2.2",
                       radiance_levels |-> 1 ]) >> ]_vars

\* C9 witness: init succeeded and the first draw_raw followed it directly.
C9_Witness ==
    /\ Len(trace) = 2
    /\ trace[1].op = "init" /\ trace[1].arg = "none"
    /\ trace[2].op = "draw_raw"
    /\ status = "ready"
    /\ params_block # Unwritten

\* C10: on a constructed object with no mutator call, a draw_raw fails only
\* if transform() was never called before it; when transform() was called
\* the draw returns Ok and records exactly one draw command, which reads
\* the Params derived from the default Environment, exposure and gamma.
C10_FirstDrawFromDefaults ==
    [][ (Did("draw_raw") /\ \A i \in 1..Len(trace) : trace[i].op \notin MutatorOps) =>
          LET everSet == \E i \in 1..Len(trace) : trace[i].op = "transform"
              d == Draws(Appended)
          IN  /\ result' # "Ok" => ~everSet
              /\ everSet =>
                   /\ result' = "Ok"
                   /\ Len(d) = 1
                   /\ d[1].params =
                        [ sun_matrix      |-> ToHomogeneous(RotDown),
                          sun_color       |-> <<"1.0", "1.0", "1.0", "2.0">>,
                          sun_in_env      |-> "0.0",
                          exposure        |-> "1.0",
                          gamma           |-> "2.2",
                          radiance_levels |-> 1 ] ]_vars

\* C10 witness: init, transform(), draw_raw: the draw returned Ok.
C10_Witness ==
    /\ Len(trace) = 3
    /\ trace[1].op = "init"
    /\ trace[2].op = "transform"
    /\ trace[3].op = "draw_raw"
    /\ result = "Ok"
    /\ Len(Draws(cmds)) = 1

\* C11: every failing construction step of init ends it with an error value
\* returned to the caller and no UberInputs; none ends it by panic.
C11_InitFailuresAreTypedErrors ==
    [][ (Did("init") /\ Arg # "none") =>
          /\ result' = "Err"
          /\ status' = "failed" ]_vars

\* C12: in clear_env each eye's draw is immediately preceded by a Transform
\* buffer write for the same eye (identity model; view, projection, eye
\* position, clip offset of that eye), has that eye's clip rectangle as
\* scissor, and reads that Transform.
C12_EachEyeDrawReadsItsOwnTransform ==
    [][ Did("clear_env") =>
          LET a == Appended
              want(eye) ==
                [ model       |-> "identity",
                  view        |-> eye.view,
                  proj        |-> eye.proj,
                  eye         |-> << eye.eye[1], eye.eye[2], eye.eye[3], "1.0" >>,
                  clip_offset |-> eye.clip_offset ]
              ok(i, eye) ==
                /\ IsUpdate(a[i - 1], "transform_block")
                /\ a[i - 1].data = want(eye)
                /\ IsDraw(a[i])
                /\ a[i].scissor = eye.clip
                /\ a[i].transform = want(eye)
          IN  /\ Len(a) = 5
              /\ ok(3, Arg.left)
              /\ ok(5, Arg.right) ]_vars

\* C12 witness: clear_env was called with eyes that differ, and the two
\* draws read different Transforms.
C12_Witness ==
    /\ Len(trace) >= 1
    /\ trace[Len(trace)].op = "clear_env"
    /\ trace[Len(trace)].arg.left # trace[Len(trace)].arg.right
    /\ Len(cmds) >= 5
    /\ IsDraw(cmds[Len(cmds) - 2]) /\ IsDraw(cmds[Len(cmds)])
    /\ cmds[Len(cmds) - 2].transform # cmds[Len(cmds)].transform

\* Vector helpers for the winding check.
VSub(u, v) == << u[1] - v[1], u[2] - v[2], u[3] - v[3] >>
VCross(u, v) ==
    << u[2] * v[3] - u[3] * v[2],
       u[3] * v[1] - u[1] * v[3],
       u[1] * v[2] - u[2] * v[1] >>
VDot(u, v) == u[1] * v[1] + u[2] * v[2] + u[3] * v[3]

\* C13: the background cube built by init has exactly 8 vertices, one at each
\* point of {-10, 10}^3, and 36 indices, each in 0..7, forming 12 triangles,
\* two on each cube face; for every triangle (a, b, c) the normal
\* (b - a) x (c - a) points towards the origin.
C13_CubeFacesInward ==
    status = "ready" =>
      LET v == background.verts
          ix == background.inds
          corner(k, j) == v[ix[3 * k + j] + 1]
          onFace(k, axis, side) ==
              \A j \in 1..3 : corner(k, j)[axis] = side
      IN  /\ Len(v) = 8
          /\ { v[i] : i \in 1..Len(v) } =
               { << x, y, z >> : x \in {-10, 10}, y \in {-10, 10}, z \in {-10, 10} }
          /\ Len(ix) = 36
          /\ \A i \in 1..Len(ix) : ix[i] \in 0..7
          /\ \A k \in 0..11 :
               LET a == corner(k, 1)
                   n == VCross(VSub(corner(k, 2), a), VSub(corner(k, 3), a))
               IN  VDot(n, VSub(<< 0, 0, 0 >>, a)) > 0
          /\ \A axis \in 1..3 : \A side \in {-10, 10} :
               Cardinality({ k \in 0..11 : onFace(k, axis, side) }) = 2

\* C13 witness: init has succeeded and built the 12-triangle mesh.
C13_Witness ==
    /\ status = "ready"
    /\ Len(background.inds) = 36
    /\ Len(background.verts) = 8

\* C14 (as stated): a write of the Transform or Params buffer is recorded
\* only by draw_raw's flush, of the pending Transform or under a set
\* params_update; no other operation, clear_env included, records one.
C14_OnlyFlushWritesBuffers ==
    [][ \A i \in 1..Len(Appended) :
          Appended[i].kind = "update" =>
            /\ Did("draw_raw")
            /\ IsUpdate(Appended[i], "transform_block")
                 => transform = Some(Appended[i].data)
            /\ IsUpdate(Appended[i], "params_block") => params_update ]_vars

\* C14 (amended): a write of the Transform or Params buffer is recorded only
\* by draw_raw's flush (of the pending Transform, or under a set
\* params_update) or by clear_env, which writes both without consulting the
\* pending Transform or the flag; transform() and the mutators record none.
C14_OnlyDrawsWriteBuffers ==
    [][ \A i \in 1..Len(Appended) :
          Appended[i].kind = "update" =>
            \/ /\ Did("draw_raw")
               /\ IsUpdate(Appended[i], "transform_block")
                    => transform = Some(Appended[i].data)
               /\ IsUpdate(Appended[i], "params_block") => params_update
            \/ Did("clear_env") ]_vars

\* C14 witness: clear_env wrote the buffers with a Transform still pending,
\* and a later draw_raw flushed that Transform.
C14_Witness ==
    /\ Len(trace) = 4
    /\ trace[2].op = "transform"
    /\ trace[3].op = "clear_env"
    /\ trace[4].op = "draw_raw"
    /\ Len(TransformWrites(cmds)) = 3
    /\ Len(ParamsWrites(cmds)) = 2

\* C15: transform() only replaces the pending Transform: it records no
\* command and leaves params_update, Environment, exposure and gamma as they
\* were; the four mutators record no command and leave the pending
\* Transform as it was.
C15_SettersRecordNothing ==
    [][ /\ Did("transform") =>
             /\ transform' = Some(Arg)
             /\ cmds' = cmds
             /\ transform_block' = transform_block
             /\ params_block' = params_block
             /\ params_update' = params_update
             /\ env' = env /\ exposure' = exposure /\ gamma' = gamma
        /\ (\E m \in MutatorOps : Did(m)) =>
             /\ cmds' = cmds
             /\ transform_block' = transform_block
             /\ params_block' = params_block
             /\ transform' = transform ]_vars

\* C15 witness: after a draw, transform() and then a mutator were called with
\* a Transform pending; the stream still ends with that draw.
C15_Witness ==
    /\ Len(trace) = 4
    /\ trace[2].op = "draw_raw"
    /\ trace[3].op = "transform"
    /\ trace[4].op = "set_gamma"
    /\ transform = Some(trace[3].arg)
    /\ Len(cmds) = 2
    /\ transform_block = Unwritten

\* C16: no draw reads stale Params: at every draw command recorded by
\* draw_raw or clear_env the content of the Params buffer equals the block
\* derived from the Environment, exposure and gamma current at that draw.
C16_NoStaleParams ==
    [][ (Did("draw_raw") \/ Did("clear_env")) =>
          LET d == Draws(Appended)
          IN  /\ Len(d) >= 1
              /\ \A i \in 1..Len(d) : d[i].params = Derived(env, exposure, gamma)
              /\ params_block' = Derived(env, exposure, gamma) ]_vars

\* C16 witness: draw_raw, then mut_env switching the sun on, then draw_raw:
\* the second draw reads sun_in_env = 1.0, the first read 0.0.
C16_Witness ==
    /\ Len(trace) = 4
    /\ trace[2].op = "draw_raw"
    /\ trace[3].op = "mut_env" /\ trace[3].arg = "sun_on"
    /\ trace[4].op = "draw_raw"
    /\ Draws(cmds)[1].params.sun_in_env = "0.0"
    /\ Draws(cmds)[2].params.sun_in_env = "1.0"

\* C17: clear_env leaves the pending Transform, params_update, Environment,
\* exposure and gamma as they were; a Transform set before clear_env is
\* still pending after it and is the value the next draw_raw writes.
C17_ClearEnvKeepsInputs ==
    [][ /\ Did("clear_env") =>
             /\ transform' = transform
             /\ params_update' = params_update
             /\ env' = env /\ exposure' = exposure /\ gamma' = gamma
        /\ (/\ Did("draw_raw")
            /\ Len(trace) >= 2
            /\ trace[Len(trace)].op = "clear_env"
            /\ trace[Len(trace) - 1].op = "transform") =>
               TransformWrites(Appended) =
                 << Update("transform_block", trace[Len(trace) - 1].arg) >> ]_vars

\* C17 witness: transform(model_2), clear_env, draw_raw: the draw reads
\* model_2.
C17_Witness ==
    /\ Len(trace) = 4
    /\ trace[2].op = "transform" /\ trace[2].arg = MkTransform("model_2")
    /\ trace[3].op = "clear_env"
    /\ trace[4].op = "draw_raw"
    /\ cmds[Len(cmds)].transform = MkTransform("model_2")

\* The most recent value written to the Transform buffer by the commands
\* cs[1..n], Unwritten if there is none.
RECURSIVE LastTransformWrite(_, _)
LastTransformWrite(cs, n) ==
    IF n = 0 THEN Unwritten
    ELSE IF IsUpdate(cs[n], "transform_block") THEN cs[n].data
    ELSE LastTransformWrite(cs, n - 1)

\* Index in the history h of the last call of clear_env, 0 if there is none.
LastClearEnv(h) ==
    LET S == { i \in 1..Len(h) : h[i].op = "clear_env" }
    IN  IF S = {} THEN 0 ELSE CHOOSE i \in S : \A j \in S : j <= i

\* The Transform clear_env leaves in the buffer: the right eye's.
RightEyeTransform(ctx) ==
    [ model       |-> "identity",
      view        |-> ctx.right.view,
      proj        |-> ctx.right.proj,
      eye         |-> << ctx.right.eye[1], ctx.right.eye[2], ctx.right.eye[3], "1.0" >>,
      clip_offset |-> ctx.right.clip_offset ]

\* Every draw_raw draw reads the value most recently written to the
\* Transform buffer in the command stream.
DrawReadsLastWrite ==
    Did("draw_raw") =>
      /\ IsDraw(cmds'[Len(cmds')])
      /\ cmds'[Len(cmds')].transform = LastTransformWrite(cmds', Len(cmds') - 1)

\* C18 (as stated): every draw_raw draw reads the last value written to the
\* Transform buffer; a draw_raw after clear_env with no transform() call in
\* between reads the right eye's background Transform.
C18_DrawAfterClearEnvReadsRightEye ==
    [][ /\ DrawReadsLastWrite
        /\ LET i == LastClearEnv(trace)
           IN  (/\ Did("draw_raw")
                /\ i > 0
                /\ \A j \in (i + 1)..Len(trace) :
                     trace[j].op \notin {"transform", "draw_raw"}) =>
                  cmds'[Len(cmds')].transform = RightEyeTransform(trace[i].arg) ]_vars

\* C18 (amended): every draw_raw draw reads the last value written to the
\* Transform buffer; a draw_raw after clear_env with no transform() call in
\* between and no Transform pending reads the right eye's background
\* Transform.
C18_DrawAfterClearEnvNothingPending ==
    [][ /\ DrawReadsLastWrite
        /\ LET i == LastClearEnv(trace)
           IN  (/\ Did("draw_raw")
                /\ i > 0
                /\ \A j \in (i + 1)..Len(trace) :
                     trace[j].op \notin {"transform", "draw_raw"}
                /\ transform = None) =>
                  cmds'[Len(cmds')].transform = RightEyeTransform(trace[i].arg) ]_vars

\* C18 witness: transform(model_1), draw_raw, clear_env, draw_raw: the last
\* draw reads the right eye's Transform, not model_1.
C18_Witness ==
    /\ Len(trace) = 5
    /\ trace[2].op = "transform" /\ trace[2].arg = MkTransform("model_1")
    /\ trace[3].op = "draw_raw"
    /\ trace[4].op = "clear_env"
    /\ trace[5].op = "draw_raw"
    /\ cmds[Len(cmds)].transform.model = "identity"
    /\ cmds[Len(cmds)].transform.view = trace[4].arg.right.view

====
